---- MODULE Spec2Model ----
(***************************************************************************)
(* State-machine model of the selection-highlighter extension:             *)
(*   - IntervalManager (src/src/utils.ts), the polling scheduler;          *)
(*   - Alfred / Feature (src/unnamed/part_003), the feature runtime;       *)
(*   - SelectionHighlighter (src/unnamed/part_000), the annotation engine; *)
(*   - debounce (src/src/utils.ts) and the feature registry                *)
(*     (Alfred.registerFeature, src/unnamed/part_003).                     *)
(* Each component has its own specification (SpecIM, SpecAlfred, SpecHL,   *)
(* SpecDebounce, SpecRegistry, ...) over the shared variable tuple; a      *)
(* component's specification leaves the other components' variables        *)
(* unchanged.                                                              *)
(***************************************************************************)
EXTENDS Integers, Sequences, FiniteSets, TLC

(***************************************************************************)
(* Bounds of the model and constants of the program.                       *)
(***************************************************************************)
\* Date.now() of the first modelled instant (any positive number).
StartTime == 1000
\* The clock stops advancing after MaxTicks periods.
MaxTicks == 3
\* Number of IntervalManager.add calls modelled.
MaxTasks == 2
\* utils.ts:146, the period of the repeating timer.
TickPeriod == 500
\* utils.ts:154, `instance.interval || 1000`.
DefaultInterval == 1000
\* part_003:152, `5 * 1000`: the deactivation timeout handed to waitFor.
DeactivationTimeout == 5000
\* Number of run passes (Alfred.run calls) modelled.
MaxPasses == 2
\* Number of Alfred.setSettings calls modelled.
MaxSetCalls == 2
\* The runtime's clock advances at most this many half-timeouts.
MaxElapse == 2
\* Number of errors (throws and timeouts) the features raise in all.
MaxFailures == 2
\* Number of run() calls of the highlighter modelled.
MaxHLRuns == 2
\* utils.ts:239, `bounceTime = 500`: the default quiet period of debounce.
BounceTime == 500
\* Number of calls of a debounced function modelled.
MaxDbCalls == 3
\* The priorities a feature may be given are 0 .. MaxPriority.
MaxPriority == 1
\* Number of UPDATE_SETTINGS_REQUEST messages modelled.
MaxRequests == 3
\* Number of run() invocations per feature, and of cleanup() calls per feature,
\* the teardown queue is followed through.
MaxRuns == 3
MaxCleanups == 3
\* Number of Alfred.registerFeature calls modelled.
MaxRegCalls == 4

VARIABLES
  \* ---- IntervalManager ----
  intervalPool,   \* Seq of instances, in insertion order (Set iteration order)
  imNextId,       \* IntervalManager.id, the auto-increment
  gInterval,      \* TRUE iff this.gInterval !== undefined
  timerPending,   \* TRUE iff a window.setTimeout of run() has not fired nor been cleared
  timerDue,       \* the instant at which the pending timer may fire
  now,            \* Date.now()
  inflight,       \* history: per instance id, invocations of run() not yet settled
  lastTick,       \* history: what the last timer callback did
  removedIds,     \* history: the ids of the instances remove() was called for
  \* ---- Alfred (feature runtime) ----
  feat,           \* per feature: enabled, value, stats (lastRunTime, runTimes, failures)
  settings,       \* Alfred.settings, the snapshot of the last setSettings call
  passes,         \* the Alfred.run passes started so far, each an async activation
  nSet,           \* history: number of setSettings calls
  lastNoRun,      \* history: the noRun argument of the last setSettings call
  raised,         \* history: per feature, the errors its calls raised, in order
  active,         \* history: per feature, run() invoked and no cleanup() invoked since
  doubleRun,      \* history: per feature, run() was invoked while active
  priority,       \* per feature: Feature.priority
  \* ---- SelectionHighlighter (text annotation engine) ----
  docId,          \* which of the modelled documents the page shows
  config,         \* the HighlightConfig parsed from the feature's value
  doc,            \* the DOM: the elements holding text, each with its child nodes
  selection,      \* window.getSelection(): the boundary points of its range
  currentHighlightText,  \* SelectionHighlighter.currentHighlightText
  annotatedNodes, \* SelectionHighlighter.annotatedNodes (identities of the wrappers)
  gen,            \* generation of wrapper identities, flipped when the set is replaced
  listening,      \* TRUE iff the selectionchange listener is attached
  timer,          \* TRUE iff the debounce timer is pending
  hung,           \* TRUE iff highlight() has entered a loop that does not end
  teardownQueue,  \* length of Feature.teardownQueue
  repeat,         \* history: highlight() calls in a row with the present selection string
  \* ---- debounce (utils.ts) ----
  dbTimer,        \* the closure variable `timer`: the last handle, 0 while undefined
  dbTimeouts,     \* the timeouts set and neither fired nor cleared: handle and due time
  dbNow,          \* the clock of the timers
  dbLog,          \* history: the calls of newFn and the invocations of fn, in order
  \* ---- Alfred.features (the registry) ----
  registry,       \* the Map in insertion order: feature name -> feature instance
  regErrors,      \* number of console.error calls of registerFeature
  regLog,         \* history: the constructors handed to registerFeature, in order
  \* ---- background settings store (part_002) ----
  stored,         \* chrome.storage.sync, key 'settings': name -> entry (a partial record)
  storeQueue,     \* the storage operations issued and not yet carried out, in order
  notified,       \* the settings of the last SYNC_SETTINGS_RESPONSE, NoMessage before
  received,       \* history: the settings of the update requests received, in order
  storedInit,     \* history: the stored settings before the first request
  \* ---- Feature.teardownQueue (part_003) ----
  teardowns,      \* per feature, Feature.teardownQueue: the teardown actions, each
                  \* named by the number of the run() that pushed it
  executed        \* history: per feature and cleanup() call, the actions it executed

imVars == <<intervalPool, imNextId, gInterval, timerPending, timerDue, now,
            inflight, lastTick, removedIds>>

alfVars == <<feat, settings, passes, nSet, lastNoRun, raised, active,
             doubleRun, priority>>

hlVars == <<docId, config, doc, selection, currentHighlightText,
            annotatedNodes, gen, listening, timer, hung, teardownQueue, repeat>>

bgVars == <<stored, storeQueue, notified, received, storedInit>>

tdVars == <<teardowns, executed>>

miscVars == <<dbTimer, dbTimeouts, dbNow, dbLog, registry, regErrors, regLog,
              stored, storeQueue, notified, received, storedInit,
              teardowns, executed>>

vars == <<intervalPool, imNextId, gInterval, timerPending, timerDue, now,
          inflight, lastTick, removedIds,
          feat, settings, passes, nSet, lastNoRun, raised, active, doubleRun,
          priority,
          docId, config, doc, selection, currentHighlightText,
          annotatedNodes, gen, listening, timer, hung, teardownQueue, repeat,
          dbTimer, dbTimeouts, dbNow, dbLog, registry, regErrors, regLog,
          stored, storeQueue, notified, received, storedInit,
          teardowns, executed>>

----------------------------------------------------------------------------
(***************************************************************************)
(* Sequence helpers.                                                       *)
(***************************************************************************)
Range(s) == {s[i] : i \in DOMAIN s}

\* utils.ts:178 with a delete that removes nothing.
SeqFilterOutNone(s, id) == s

RECURSIVE SeqFilterOut(_, _)
\* s without the elements whose id is `id` (Set.delete of one object).
SeqFilterOut(s, id) ==
  IF s = <<>> THEN <<>>
  ELSE IF Head(s).id = id THEN SeqFilterOut(Tail(s), id)
       ELSE <<Head(s)>> \o SeqFilterOut(Tail(s), id)

----------------------------------------------------------------------------
(***************************************************************************)
(* IntervalManager, utils.ts:102-184.                                      *)
(***************************************************************************)
MaxTime == StartTime + MaxTicks * TickPeriod

TaskIds == 0 .. (MaxTasks - 1)

\* The intervals handed to add(): 0 (falsy, replaced by the default) or one period.
IntervalChoices == {0, TickPeriod}

NoTick == [invoked |-> {}, skipped |-> {}, removed |-> {}, threw |-> FALSE]

IMInit ==
  /\ intervalPool = <<>>
  /\ imNextId = 0
  /\ gInterval = FALSE
  /\ timerPending = FALSE
  /\ timerDue = 0
  /\ now = StartTime
  /\ inflight = [i \in TaskIds |-> 0]
  /\ lastTick = NoTick
  /\ removedIds = {}

\* utils.ts:127-130 with the isExecuting test left out.
ShouldInvokeNoGuard(inst, t) ==
  inst.lastRunTime = 0 \/ t - inst.lastRunTime > inst.interval

\* utils.ts:127-130, the condition under which the callback invokes instance.run().
ShouldInvoke(inst, t) ==
  /\ ~inst.isExecuting
  /\ (inst.lastRunTime = 0 \/ t - inst.lastRunTime > inst.interval)

\* utils.ts:124-142, the forEach of the timer callback. `outs` gives, per instance
\* id, what its stopWhen does on this tick: "false", "true" or "throw".  The result
\* carries the pool, whether stop() was called (the pool became empty), and the
\* tick's record.
RECURSIVE ForEachInstance(_, _, _, _)
ForEachInstance(todo, outs, acc, t) ==
  IF todo = <<>> \/ acc.threw THEN acc
  ELSE
    LET inst == Head(todo)
        out  == IF inst.stopWhen THEN outs[inst.id] ELSE "false"
    IN IF out = "throw"
       THEN ForEachInstance(Tail(todo), outs, [acc EXCEPT !.threw = TRUE], t)
       ELSE IF out = "true"
       THEN LET p == SeqFilterOut(acc.pool, inst.id)
            IN ForEachInstance(Tail(todo), outs,
                 [acc EXCEPT !.pool = p,
                             !.removed = @ \cup {inst.id},
                             !.stopped = @ \/ (p = <<>>)], t)
       ELSE IF ShouldInvoke(inst, t)
       THEN ForEachInstance(Tail(todo), outs,
              [acc EXCEPT
                 !.pool = [i \in DOMAIN acc.pool |->
                             IF acc.pool[i].id = inst.id
                             THEN [acc.pool[i] EXCEPT !.isExecuting = TRUE]
                             ELSE acc.pool[i]],
                 !.invoked = @ \cup {inst.id}], t)
       ELSE ForEachInstance(Tail(todo), outs,
              [acc EXCEPT !.skipped = @ \cup {inst.id}], t)

\* utils.ts:124-125, what a call of stopWhen() may do: return false or true, or
\* throw.
StopWhenOutcomes == {"false", "true", "throw"}

\* One outcome of stopWhen() for every task of a tick.
TickOutcomes == [TaskIds -> StopWhenOutcomes]

\* utils.ts:122-146, the callback of the timer armed by run(): the forEach, then
\* this.run() re-arms the timer unless the forEach threw.
Tick ==
  /\ timerPending
  /\ now >= timerDue
  /\ \E outs \in TickOutcomes :
       \* outcomes of instances without a stop-predicate or outside the pool are unused
       /\ \A i \in TaskIds :
            (\A k \in DOMAIN intervalPool :
                intervalPool[k].id = i => ~intervalPool[k].stopWhen) => outs[i] = "false"
       /\ LET r == ForEachInstance(intervalPool, outs,
                     [pool |-> intervalPool, invoked |-> {}, skipped |-> {},
                      removed |-> {}, stopped |-> FALSE, threw |-> FALSE], now)
          IN /\ intervalPool' = r.pool
             /\ removedIds' = removedIds \cup r.removed
             /\ inflight' = [i \in TaskIds |->
                               IF i \in r.invoked THEN inflight[i] + 1 ELSE inflight[i]]
             /\ lastTick' = [invoked |-> r.invoked, skipped |-> r.skipped,
                             removed |-> r.removed, threw |-> r.threw]
             /\ IF r.threw
                THEN \* the exception leaves the callback: run() is not reached; stop()
                     \* may have cleared gInterval before the throw
                     /\ timerPending' = FALSE
                     /\ gInterval' = (gInterval /\ ~r.stopped)
                     /\ UNCHANGED timerDue
                ELSE /\ timerPending' = TRUE
                     /\ gInterval' = TRUE
                     /\ timerDue' = now + TickPeriod
  /\ UNCHANGED <<imNextId, now>>
  /\ UNCHANGED <<alfVars, hlVars, miscVars>>

\* utils.ts:150-168 add(), with start() (112-115) and run() (117-147) arming the timer.
Add ==
  /\ imNextId < MaxTasks
  /\ \E iv \in IntervalChoices, sw \in BOOLEAN :
       intervalPool' = Append(intervalPool,
          [id |-> imNextId,
           interval |-> IF iv = 0 THEN DefaultInterval ELSE iv,
           stopWhen |-> sw,
           isExecuting |-> FALSE,
           lastRunTime |-> 0])
  /\ imNextId' = imNextId + 1
  /\ IF gInterval
     THEN UNCHANGED <<gInterval, timerPending, timerDue>>
     ELSE /\ gInterval' = TRUE
          /\ timerPending' = TRUE
          /\ timerDue' = now + TickPeriod
  /\ UNCHANGED <<now, inflight, lastTick, removedIds>>
  /\ UNCHANGED <<alfVars, hlVars, miscVars>>

\* utils.ts:177-183 remove(), reached through the handle's stop() (utils.ts:156),
\* with stop() (170-175) when the pool becomes empty.
Remove ==
  /\ \E id \in TaskIds :
       /\ id < imNextId
       /\ intervalPool' = SeqFilterOut(intervalPool, id)
       /\ removedIds' = removedIds \cup {id}
  /\ IF intervalPool' = <<>> /\ gInterval
     THEN /\ timerPending' = FALSE
          /\ gInterval' = FALSE
     ELSE UNCHANGED <<timerPending, gInterval>>
  /\ UNCHANGED <<imNextId, timerDue, now, inflight, lastTick>>
  /\ UNCHANGED <<alfVars, hlVars, miscVars>>

\* utils.ts:134-138, the finally callback of one invocation of instance.run().
Settle ==
  /\ \E id \in TaskIds :
       /\ inflight[id] > 0
       /\ inflight' = [inflight EXCEPT ![id] = @ - 1]
       /\ intervalPool' = [i \in DOMAIN intervalPool |->
                             IF intervalPool[i].id = id
                             THEN [intervalPool[i] EXCEPT !.lastRunTime = now,
                                                          !.isExecuting = FALSE]
                             ELSE intervalPool[i]]
  /\ UNCHANGED <<imNextId, gInterval, timerPending, timerDue, now, lastTick,
                 removedIds>>
  /\ UNCHANGED <<alfVars, hlVars, miscVars>>

\* Time passes.
Advance ==
  /\ now < MaxTime
  /\ now' = now + TickPeriod
  /\ UNCHANGED <<intervalPool, imNextId, gInterval, timerPending, timerDue,
                 inflight, lastTick, removedIds>>
  /\ UNCHANGED <<alfVars, hlVars, miscVars>>

IMNext == Tick \/ Add \/ Remove \/ Settle \/ Advance

----------------------------------------------------------------------------
(***************************************************************************)
(* Feature and Alfred, part_003.  The features are the two the repository  *)
(* registers: the selection highlighter (part_000: enabled, with an own    *)
(* `value` property) and the feature toggles (part_002: disabled, without  *)
(* one).  What a feature's cleanup, shouldRun and run do is left open: each *)
(* call settles later with any outcome the Feature interface allows.       *)
(***************************************************************************)
\* part_003:77-85, Alfred.features in registration (Map insertion) order.
Registered == <<"SH", "FT">>

Features == Range(Registered)

\* part_003:24, Feature.priority (neither feature overrides the default).
Priority == [f \in Features |-> 0]

\* part_003:123, feature.hasOwnProperty('value'): part_000:16 defines it, part_002 does not.
HasValue == [f \in Features |-> f = "SH"]

\* part_003:17 / types FeatureSetting.value: an absent (undefined) value.
Undef == "undefined"

\* part_000:16-23, the value the highlighter is constructed with.
DefaultValue == "v0"

\* The values a snapshot entry may carry.
SnapValues == {"v1"}

\* options.ts:228-231, FeatureSetting.
Entries == [enabled : BOOLEAN, value : SnapValues \cup {Undef}]

\* options.ts:220-223, Settings: feature name -> FeatureSetting, for some of the names.
Snapshots == UNION {[D -> Entries] : D \in SUBSET Features}

\* part_003:152 and utils.ts:230-235 given a half-timeout clock step.
ElapseStep == DeactivationTimeout \div 2

AlfMaxTime == StartTime + MaxElapse * ElapseStep

\* part_003:21-30 with part_000:15-23 and part_002:7: the features after construction.
AlfFields ==
  /\ feat = [f \in Features |->
               [enabled |-> (f = "SH"),
                value |-> IF HasValue[f] THEN DefaultValue ELSE Undef,
                lastRunTime |-> 0,
                runTimes |-> 0,
                failures |-> <<>>]]
  /\ settings = << >>
  /\ passes = <<>>
  /\ nSet = 0
  /\ lastNoRun = FALSE
  /\ raised = [f \in Features |-> <<>>]
  /\ active = [f \in Features |-> FALSE]
  /\ doubleRun = [f \in Features |-> FALSE]

\* The features as the repository defines them: no feature assigns its priority.
AlfInit == AlfFields /\ priority = Priority

\* The features with any priorities.
AlfInitAnyPriority == AlfFields /\ priority \in [Features -> 0 .. MaxPriority]

RECURSIVE InsertByPriority(_, _)
\* One step of the stable sort of part_003:145: f goes behind every feature whose
\* priority is not greater.
InsertByPriority(s, f) ==
  IF s = <<>> THEN <<f>>
  ELSE IF priority[Head(s)] <= priority[f]
       THEN <<Head(s)>> \o InsertByPriority(Tail(s), f)
       ELSE <<f>> \o s

\* part_003:143-146 without the sort: the order of registration.
SortByPriorityNone(s) == s

RECURSIVE SortByPriority(_)
\* part_003:145, Array.prototype.sort with the comparator fa.priority - fb.priority.
SortByPriority(s) ==
  IF s = <<>> THEN <<>>
  ELSE InsertByPriority(SortByPriority(SubSeq(s, 1, Len(s) - 1)), s[Len(s)])

\* part_003:143-146, the `features` getter.
SortedFeatures == SortByPriority(Registered)

\* part_003:110-135 without the hasOwnProperty test of line 123.
NeedsRunAnyValue(ft, f, S) ==
  \/ ft[f].lastRunTime = 0
  \/ f \notin DOMAIN S
  \/ /\ f \in DOMAIN S
     /\ \/ ft[f].enabled # S[f].enabled
        \/ ft[f].value # S[f].value

\* part_003:110-135, whether setSettings adds the feature to featuresToRun.
NeedsRun(ft, f, S) ==
  \/ ft[f].lastRunTime = 0
  \/ f \notin DOMAIN S
  \/ /\ f \in DOMAIN S
     /\ \/ ft[f].enabled # S[f].enabled
        \/ HasValue[f] /\ ft[f].value # S[f].value

\* part_003:115-131 without the hasOwnProperty test of line 123.
ApplySettingsAnyFeature(ft, S) ==
  [f \in Features |->
     IF f \in DOMAIN S
     THEN [ft[f] EXCEPT
             !.enabled = S[f].enabled,
             !.value = IF S[f].value # Undef THEN S[f].value ELSE @]
     ELSE ft[f]]

\* part_003:115-131, the snapshot's enabled and value written onto the features.
ApplySettings(ft, S) ==
  [f \in Features |->
     IF f \in DOMAIN S
     THEN [ft[f] EXCEPT
             !.enabled = S[f].enabled,
             !.value = IF HasValue[f] /\ S[f].value # Undef THEN S[f].value ELSE @]
     ELSE ft[f]]

RECURSIVE SelectNeedsRun(_, _, _)
\* part_003:107-136, featuresToRun in insertion order.
SelectNeedsRun(fs, ft, S) ==
  IF fs = <<>> THEN <<>>
  ELSE (IF NeedsRun(ft, Head(fs), S) THEN <<Head(fs)>> ELSE <<>>)
       \o SelectNeedsRun(Tail(fs), ft, S)

\* part_003:148-149, a pass before its first loop iteration.
NewPass(src, list) ==
  [src |-> src, list |-> list, idx |-> 0, pc |-> "start", waited |-> 0,
   status |-> "running"]

\* part_003:149-152: the loop moves to the next feature and calls its cleanup()
\* under waitFor, or the loop ends and the pass's promise resolves.
CallCleanup(ps, p, act) ==
  LET i == ps[p].idx + 1
  IN IF i > Len(ps[p].list)
     THEN [passes |-> [ps EXCEPT ![p].idx = i, ![p].pc = "done",
                                 ![p].status = "resolved"],
           active |-> act]
     ELSE LET f == ps[p].list[i]
          IN [passes |-> [ps EXCEPT ![p].idx = i, ![p].pc = "cleanup",
                                    ![p].waited = 0],
              active |-> [act EXCEPT ![f] = FALSE]]

\* part_003:151-162 with the try block closed after the cleanup.
TryCoversCleanupOnly(kind) == kind \in {"cleanup", "timeout"}

\* part_003:151-162: the call sites inside the try block, by the error they raise.
TryCovers(kind) == kind \in {"cleanup", "timeout", "shouldRun", "run"}

\* utils.ts:230-235 with a timer that does not wait.
TimeoutElapsedAtOnce(waited) == waited >= 0

\* utils.ts:230-235, waitFor: the timer set at the call has run for ts milliseconds.
TimeoutElapsed(waited) == waited >= DeactivationTimeout

\* part_003:160-162: an error raised for the current feature of pass p.  Inside the
\* try block it is pushed onto the feature's failures and the loop goes on; outside
\* it would reject the pass's promise.
OnError(ps, p, ft, act, kind) ==
  LET f == ps[p].list[ps[p].idx]
  IN IF TryCovers(kind)
     THEN LET r == CallCleanup(ps, p, act)
          IN [passes |-> r.passes, active |-> r.active,
              feat |-> [ft EXCEPT ![f].failures = Append(@, kind)]]
     ELSE [passes |-> [ps EXCEPT ![p].pc = "done", ![p].status = "rejected"],
           active |-> act, feat |-> ft]

CurFeature(p) == passes[p].list[passes[p].idx]

RECURSIVE SumLen(_, _)
SumLen(fs, r) == IF fs = <<>> THEN 0 ELSE Len(r[Head(fs)]) + SumLen(Tail(fs), r)

\* The features may still raise an error (the bound on the errors modelled).
CanFail == SumLen(Registered, raised) < MaxFailures

\* part_003:138 with the noRun argument ignored.
LaunchesRunIgnoringNoRun(toRun, noRun) == toRun # <<>>

\* part_003:138, `if (featuresToRun.size && !noRun)`.
LaunchesRun(toRun, noRun) == toRun # <<>> /\ ~noRun

\* part_003:105-141, Alfred.setSettings(settings, noRun), with the synchronous
\* start of the pass it launches (part_003:148-152, up to the first await).
SetSettings(snaps, noRuns) ==
  /\ nSet < MaxSetCalls
  /\ \E S \in snaps, noRun \in noRuns :
       LET toRun == SelectNeedsRun(SortedFeatures, feat, S)
           ft    == ApplySettings(feat, S)
       IN /\ settings' = S
          /\ lastNoRun' = noRun
          /\ feat' = ft
          /\ IF LaunchesRun(toRun, noRun)
             THEN /\ Len(passes) < MaxPasses
                  /\ LET r == CallCleanup(Append(passes, NewPass("settings", toRun)),
                                          Len(passes) + 1, active)
                     IN /\ passes' = r.passes
                        /\ active' = r.active
             ELSE UNCHANGED <<passes, active>>
  /\ nSet' = nSet + 1
  /\ UNCHANGED <<raised, doubleRun>>
  /\ UNCHANGED <<priority, imVars, hlVars, miscVars>>

\* part_002:208-218, the location-change task calling alfred.run(): the scheduler
\* does not invoke the task again before the pass it awaits has settled.
LocationRun ==
  /\ Len(passes) < MaxPasses
  /\ \A p \in DOMAIN passes :
        passes[p].src = "location" => passes[p].status # "running"
  /\ LET r == CallCleanup(Append(passes, NewPass("location", SortedFeatures)),
                          Len(passes) + 1, active)
     IN /\ passes' = r.passes
        /\ active' = r.active
  /\ UNCHANGED <<feat, settings, nSet, lastNoRun, raised, doubleRun>>
  /\ UNCHANGED <<priority, imVars, hlVars, miscVars>>

\* part_003:152-155: the awaited cleanup() settles before the timeout.
CleanupSettles(outs) ==
  /\ \E p \in DOMAIN passes, out \in outs :
       /\ passes[p].pc = "cleanup"
       /\ (out = "throw" => CanFail)
       /\ LET f == CurFeature(p)
          IN IF out = "throw"
             THEN LET r == OnError(passes, p, feat, active, "cleanup")
                  IN /\ passes' = r.passes
                     /\ active' = r.active
                     /\ feat' = r.feat
                     /\ raised' = [raised EXCEPT ![f] = Append(@, "cleanup")]
             ELSE IF ~feat[f].enabled
             THEN LET r == CallCleanup(passes, p, active)
                  IN /\ passes' = r.passes
                     /\ active' = r.active
                     /\ UNCHANGED <<feat, raised>>
             ELSE /\ passes' = [passes EXCEPT ![p].pc = "shouldRun"]
                  /\ UNCHANGED <<feat, raised, active>>
  /\ UNCHANGED <<settings, nSet, lastNoRun, doubleRun>>
  /\ UNCHANGED <<priority, imVars, hlVars, miscVars>>

\* utils.ts:231-234 and part_003:152,160-162: the timer of waitFor fires while the
\* cleanup is still pending; the race rejects and the catch block records it.
CleanupTimeout ==
  /\ \E p \in DOMAIN passes :
       /\ passes[p].pc = "cleanup"
       /\ TimeoutElapsed(passes[p].waited)
       /\ CanFail
       /\ LET f == CurFeature(p)
              r == OnError(passes, p, feat, active, "timeout")
          IN /\ passes' = r.passes
             /\ active' = r.active
             /\ feat' = r.feat
             /\ raised' = [raised EXCEPT ![f] = Append(@, "timeout")]
  /\ UNCHANGED <<settings, nSet, lastNoRun, doubleRun>>
  /\ UNCHANGED <<priority, imVars, hlVars, miscVars>>

\* part_003:155-158: the awaited shouldRun() settles.
ShouldRunSettles(outs) ==
  /\ \E p \in DOMAIN passes, out \in outs :
       /\ passes[p].pc = "shouldRun"
       /\ (out = "throw" => CanFail)
       /\ LET f == CurFeature(p)
          IN IF out = "throw"
             THEN LET r == OnError(passes, p, feat, active, "shouldRun")
                  IN /\ passes' = r.passes
                     /\ active' = r.active
                     /\ feat' = r.feat
                     /\ raised' = [raised EXCEPT ![f] = Append(@, "shouldRun")]
                     /\ UNCHANGED doubleRun
             ELSE IF out = "false"
             THEN LET r == CallCleanup(passes, p, active)
                  IN /\ passes' = r.passes
                     /\ active' = r.active
                     /\ UNCHANGED <<feat, raised, doubleRun>>
             ELSE /\ feat' = [feat EXCEPT ![f].lastRunTime = now,
                                          ![f].runTimes = @ + 1]
                  /\ passes' = [passes EXCEPT ![p].pc = "run"]
                  /\ doubleRun' = [doubleRun EXCEPT ![f] = @ \/ active[f]]
                  /\ active' = [active EXCEPT ![f] = TRUE]
                  /\ UNCHANGED raised
  /\ UNCHANGED <<settings, nSet, lastNoRun>>
  /\ UNCHANGED <<priority, imVars, hlVars, miscVars>>

\* part_003:158-162: the awaited run() settles.
RunSettles(outs) ==
  /\ \E p \in DOMAIN passes, out \in outs :
       /\ passes[p].pc = "run"
       /\ (out = "throw" => CanFail)
       /\ LET f == CurFeature(p)
          IN IF out = "throw"
             THEN LET r == OnError(passes, p, feat, active, "run")
                  IN /\ passes' = r.passes
                     /\ active' = r.active
                     /\ feat' = r.feat
                     /\ raised' = [raised EXCEPT ![f] = Append(@, "run")]
             ELSE LET r == CallCleanup(passes, p, active)
                  IN /\ passes' = r.passes
                     /\ active' = r.active
                     /\ UNCHANGED <<feat, raised>>
  /\ UNCHANGED <<settings, nSet, lastNoRun, doubleRun>>
  /\ UNCHANGED <<priority, imVars, hlVars, miscVars>>

\* utils.ts:232, the timers of waitFor run: time passes while a cleanup is awaited
\* (the runtime reads the clock otherwise only to stamp lastRunTime).
Elapse ==
  /\ now < AlfMaxTime
  /\ \E p \in DOMAIN passes : passes[p].pc = "cleanup"
  /\ now' = now + ElapseStep
  /\ passes' = [p \in DOMAIN passes |->
                  IF passes[p].pc = "cleanup"
                  THEN [passes[p] EXCEPT !.waited = @ + ElapseStep]
                  ELSE passes[p]]
  /\ UNCHANGED <<intervalPool, imNextId, gInterval, timerPending, timerDue,
                 inflight, lastTick, removedIds>>
  /\ UNCHANGED <<feat, settings, nSet, lastNoRun, raised, active, doubleRun>>
  /\ UNCHANGED <<priority, hlVars, miscVars>>

(***************************************************************************)
(* The runtime under features of any behaviour the Feature interface       *)
(* allows: a call may resolve, throw, or (cleanup) stay pending until the  *)
(* timeout.  The snapshots are the empty one (every feature is handed to   *)
(* run), the one the feature toggles' Save button builds with every box    *)
(* checked (part_002:79-92), and one that sets the highlighter's value.    *)
(***************************************************************************)
RuntimeSnapshots ==
  { << >>,
    [f \in Features |-> [enabled |-> TRUE, value |-> Undef]],
    [f \in {"SH"} |-> [enabled |-> TRUE, value |-> "v1"]] }

\* part_003:152,158: an awaited cleanup() or run() resolves or throws.
SettleOutcomes == {"ok", "throw"}

\* part_003:155: an awaited shouldRun() answers true or false, or throws.
ShouldRunOutcomes == {"true", "false", "throw"}

AlfSetSettings == SetSettings(RuntimeSnapshots, {FALSE})

AlfCleanupSettles == CleanupSettles(SettleOutcomes)

AlfShouldRunSettles == ShouldRunSettles(ShouldRunOutcomes)

AlfRunSettles == RunSettles(SettleOutcomes)

AlfNext ==
  \/ AlfSetSettings
  \/ LocationRun
  \/ AlfCleanupSettles
  \/ CleanupTimeout
  \/ AlfShouldRunSettles
  \/ AlfRunSettles
  \/ Elapse

(***************************************************************************)
(* Reconciliation under every snapshot and both values of noRun, with      *)
(* features whose calls resolve (shouldRun with either answer).            *)
(***************************************************************************)
\* part_003:155: the answers of a shouldRun() that does not throw.
ShouldRunAnswers == {"true", "false"}

RcSetSettings == SetSettings(Snapshots, BOOLEAN)

RcCleanupSettles == CleanupSettles({"ok"})

RcShouldRunSettles == ShouldRunSettles(ShouldRunAnswers)

RcRunSettles == RunSettles({"ok"})

RcNext ==
  \/ RcSetSettings
  \/ RcCleanupSettles
  \/ RcShouldRunSettles
  \/ RcRunSettles

----------------------------------------------------------------------------
(***************************************************************************)
(* SelectionHighlighter, part_000.  A string is a sequence of characters.  *)
(* The page is a sequence of elements that hold text, each below           *)
(* document.body or below the shadow root of a host element of the body;   *)
(* the children of an element are Text nodes and the wrappers (<span>) the *)
(* engine creates.  An element is plain ("p"), content-editable            *)
(* ("editable", matched by the default noHighlightWithin selector          *)
(* '[contentEditable]') or matched by the selector an excludeParents       *)
(* configuration names ("excl").                                           *)
(***************************************************************************)
\* String.prototype.trim (the only white space of the modelled pages is " ").
RECURSIVE TrimLeft(_)
TrimLeft(s) == IF s # <<>> /\ Head(s) = " " THEN TrimLeft(Tail(s)) ELSE s

RECURSIVE TrimRight(_)
TrimRight(s) ==
  IF s # <<>> /\ s[Len(s)] = " " THEN TrimRight(SubSeq(s, 1, Len(s) - 1)) ELSE s

Trim(s) == TrimRight(TrimLeft(s))

StartsWith(s, p) == Len(p) <= Len(s) /\ SubSeq(s, 1, Len(p)) = p

\* The 0-based positions at which p occurs in s.
Occurrences(s, p) ==
  {k \in 0 .. (Len(s) - Len(p)) : SubSeq(s, k + 1, k + Len(p)) = p}

\* String.prototype.indexOf.
IndexOf(s, p) ==
  IF Occurrences(s, p) = {} THEN -1
  ELSE CHOOSE k \in Occurrences(s, p) : \A j \in Occurrences(s, p) : k <= j

\* String.prototype.includes.
Includes(s, p) == IndexOf(s, p) # -1

\* The HTML serialisation of the data of a Text node (innerHTML getter): the
\* characters & < > are written as character references.
RECURSIVE EscapeText(_)
EscapeText(s) ==
  IF s = <<>> THEN <<>>
  ELSE (CASE Head(s) = "&" -> <<"&", "a", "m", "p", ";">>
          [] Head(s) = "<" -> <<"&", "l", "t", ";">>
          [] Head(s) = ">" -> <<"&", "g", "t", ";">>
          [] OTHER -> <<Head(s)>>)
       \o EscapeText(Tail(s))

\* The text the HTML parser produces for markup without tags (innerHTML setter):
\* the character reference &amp, with or without its semicolon, is decoded.
RECURSIVE ParseHTMLText(_)
ParseHTMLText(s) ==
  IF s = <<>> THEN <<>>
  ELSE IF StartsWith(s, <<"&", "a", "m", "p">>)
       THEN LET rest == SubSeq(s, 5, Len(s))
            IN <<"&">> \o ParseHTMLText(IF rest # <<>> /\ Head(rest) = ";"
                                        THEN Tail(rest) ELSE rest)
       ELSE <<Head(s)>> \o ParseHTMLText(Tail(s))

\* new RegExp(`(${raw}).*\\1`).test(text), part_000:145-147, for a raw string
\* of literal characters and "$".  Without "$" the pattern matches iff raw occurs
\* twice without overlap.  "$" asserts the end of the input: a pattern with a
\* literal character and a "$" never matches, since the group either needs a
\* character behind the end or captures characters that the back-reference
\* cannot find behind the end; a pattern of "$" only captures the empty string
\* at the end of the input and matches.
RegexMultiOccurrences(raw, text) ==
  IF \A i \in DOMAIN raw : raw[i] # "$"
  THEN \E p \in Occurrences(text, raw) :
         \E q \in Occurrences(text, raw) : q >= p + Len(raw)
  ELSE \A i \in DOMAIN raw : raw[i] = "$"

\* A Text node and a wrapper element holding one Text node.
TextNode(s) == [t |-> "text", s |-> s, id |-> 0]

SpanNode(s, id) == [t |-> "span", s |-> s, id |-> id]

Element(kind, root, s) == [kind |-> kind, root |-> root, kids |-> <<TextNode(s)>>]

\* A boundary point of the selection's range inside an element: <<n, o>> is offset
\* o of the Text node that is, or is wrapped by, the n-th child; <<n, -1>> is the
\* point of the element itself in front of its n-th child.
\* Range boundary point comparison (before or equal, strictly before).
PointLE(n1, o1, n2, o2) == n1 < n2 \/ (n1 = n2 /\ o1 <= o2)

PointLT(n1, o1, n2, o2) == n1 < n2 \/ (n1 = n2 /\ o1 < o2)

\* No range: getSelection().toString() is empty and containsNode is false.
NoSelection == [c |-> 0, sn |-> 0, so |-> 0, en |-> 0, eo |-> 0]

Min(a, b) == IF a <= b THEN a ELSE b

Max(a, b) == IF a >= b THEN a ELSE b

RECURSIVE SliceKids(_, _, _)
\* Selection.toString(): the text of the children sn..en between the two points.
SliceKids(kids, sl, j) ==
  IF j > Min(sl.en, Len(kids)) THEN <<>>
  ELSE LET from == IF j = sl.sn THEN Max(sl.so, 0) ELSE 0
           to   == IF j = sl.en THEN Max(sl.eo, 0) ELSE Len(kids[j].s)
       IN SubSeq(kids[j].s, from + 1, to) \o SliceKids(kids, sl, j + 1)

SelectionToString(dc, sl) ==
  IF sl.c = 0 THEN <<>> ELSE SliceKids(dc[sl.c].kids, sl, sl.sn)

\* part_000:29-32, the selectedText getter.
SelectedText(dc, sl) == Trim(SelectionToString(dc, sl))

\* Selection.containsNode(node) for the Text node that is child i of element c,
\* as the browser implements it: false for a node entirely before or after the
\* range, true for a fully selected node, and true for a partially selected
\* node because it is a Text node.
ContainsNode(sl, c, i) ==
  /\ sl.c = c
  /\ LET fullySelected == /\ PointLE(sl.sn, sl.so, i, -1)
                          /\ PointLE(i + 1, -1, sl.en, sl.eo)
         fullyUnselected == \/ PointLT(sl.en, sl.eo, i, -1)
                            \/ PointLT(i + 1, -1, sl.sn, sl.so)
     IN fullySelected \/ ~fullyUnselected

\* The selection with the boundary points s and e, when it lies in element c.
MovePoints(sl, c, s, e) ==
  IF sl.c # c THEN sl
  ELSE [c |-> c, sn |-> s[1], so |-> s[2], en |-> e[1], eo |-> e[2]]

\* The boundary points of a selection.
StartPoint(sl) == <<sl.sn, sl.so>>

EndPoint(sl) == <<sl.en, sl.eo>>

ReplaceAt(kids, i, new) ==
  SubSeq(kids, 1, i - 1) \o new \o SubSeq(kids, i + 1, Len(kids))

\* Text.splitText(k) on child i of element c: the data behind offset k moves to a
\* new Text node inserted as the next sibling; a boundary point behind offset k
\* moves with the data, a point at offset k or before it stays.
SplitText(ds, c, i, k) ==
  LET kids == ds.doc[c].kids
      s    == kids[i].s
      f(pt) == IF pt[1] = i /\ pt[2] > k THEN <<i + 1, pt[2] - k>>
               ELSE IF pt[1] > i THEN <<pt[1] + 1, pt[2]>>
               ELSE pt
  IN [doc |-> [ds.doc EXCEPT ![c].kids =
                 ReplaceAt(kids, i, <<TextNode(SubSeq(s, 1, k)),
                                      TextNode(SubSeq(s, k + 1, Len(s)))>>)],
      sel |-> MovePoints(ds.sel, c, f(StartPoint(ds.sel)), f(EndPoint(ds.sel)))]

\* ChildNode.replaceWith(new) on child i of element c: the child is removed and
\* the new node inserted in its place; a boundary point inside the removed child,
\* or at the element right behind it, becomes the point in front of the new node.
ReplaceWith(ds, c, i, new) ==
  LET f(pt) == IF pt[1] = i \/ (pt[1] = i + 1 /\ pt[2] = -1) THEN <<i, -1>>
               ELSE pt
  IN [doc |-> [ds.doc EXCEPT ![c].kids = ReplaceAt(@, i, <<new>>)],
      sel |-> MovePoints(ds.sel, c, f(StartPoint(ds.sel)), f(EndPoint(ds.sel)))]

RECURSIVE NormalizeFrom(_, _, _)
\* Node.normalize() on element c from child j on: an empty Text node is removed,
\* a Text node absorbs the Text nodes that follow it; the boundary points of the
\* absorbed nodes move into the absorbing node.
NormalizeFrom(ds, c, j) ==
  LET kids == ds.doc[c].kids
  IN IF j > Len(kids) THEN ds
     ELSE IF kids[j].t # "text" THEN NormalizeFrom(ds, c, j + 1)
     ELSE IF kids[j].s = <<>>
     THEN LET f(pt) == IF pt[1] = j THEN <<j, -1>>
                       ELSE IF pt[1] > j THEN <<pt[1] - 1, pt[2]>>
                       ELSE pt
          IN NormalizeFrom(
               [doc |-> [ds.doc EXCEPT ![c].kids = ReplaceAt(@, j, <<>>)],
                sel |-> MovePoints(ds.sel, c, f(StartPoint(ds.sel)),
                                   f(EndPoint(ds.sel)))], c, j)
     ELSE IF j < Len(kids) /\ kids[j + 1].t = "text"
     THEN LET len == Len(kids[j].s)
              f(pt) == IF pt[1] = j + 1
                       THEN <<j, len + Max(pt[2], 0)>>
                       ELSE IF pt[1] > j + 1 THEN <<pt[1] - 1, pt[2]>>
                       ELSE pt
              merged == TextNode(kids[j].s \o kids[j + 1].s)
          IN NormalizeFrom(
               [doc |-> [ds.doc EXCEPT ![c].kids =
                           SubSeq(kids, 1, j - 1) \o <<merged>>
                             \o SubSeq(kids, j + 2, Len(kids))],
                sel |-> MovePoints(ds.sel, c, f(StartPoint(ds.sel)),
                                   f(EndPoint(ds.sel)))], c, j)
     ELSE NormalizeFrom(ds, c, j + 1)

Normalize(ds, c) == NormalizeFrom(ds, c, 1)

\* The element and child index of the wrapper with identity id.
SpanAt(dc, id) ==
  CHOOSE loc \in UNION {{<<c, i>> : i \in DOMAIN dc[c].kids} : c \in DOMAIN dc} :
    /\ dc[loc[1]].kids[loc[2]].t = "span"
    /\ dc[loc[1]].kids[loc[2]].id = id

RECURSIVE UnwrapAll(_, _)
\* part_000:49-54, annotatedNodes.forEach in insertion order: the wrapper is
\* replaced by a Text node of its textContent and its parent is normalized.
UnwrapAll(ds, ids) ==
  IF ids = {} THEN ds
  ELSE LET id  == CHOOSE x \in ids : \A y \in ids : x <= y
           loc == SpanAt(ds.doc, id)
           c   == loc[1]
           new == TextNode(ds.doc[c].kids[loc[2]].s)
       IN UnwrapAll(Normalize(ReplaceWith(ds, c, loc[2], new), c), ids \ {id})

\* part_000:46-58, resetAll, on the engine state
\* es = [doc, sel, ann, cur, gen, hung].
ResetAll(es) ==
  IF es.ann = {} THEN es
  ELSE LET ds == UnwrapAll([doc |-> es.doc, sel |-> es.sel], es.ann)
       IN [doc |-> ds.doc, sel |-> ds.sel, ann |-> {}, cur |-> <<>>,
           gen |-> 1 - es.gen, hung |-> es.hung]

\* part_000:184-197, hasParentInChain for a Text node of element c and the
\* selector list that matches the elements of the given kind.
HasParentInChain(dc, c, kind) == dc[c].kind = kind

\* Element.innerHTML of a root: the serialisation of its elements.  A tag is one
\* symbol, whatever the element: no search string of the modelled pages occurs in
\* markup.
RECURSIVE KidsHTML(_)
KidsHTML(kids) ==
  IF kids = <<>> THEN <<>>
  ELSE (IF Head(kids).t = "span"
        THEN <<"<span>">> \o EscapeText(Head(kids).s) \o <<"</span>">>
        ELSE EscapeText(Head(kids).s))
       \o KidsHTML(Tail(kids))

RECURSIVE InnerHTML(_, _, _)
InnerHTML(dc, root, c) ==
  IF c > Len(dc) THEN <<>>
  ELSE (IF dc[c].root = root
        THEN <<"<div>">> \o KidsHTML(dc[c].kids) \o <<"</div>">>
        ELSE <<>>)
       \o InnerHTML(dc, root, c + 1)

RECURSIVE Walk(_, _, _, _, _, _)
\* part_000:133-182, textNodesUnder(root): the TreeWalker visits the Text nodes of
\* the root in document order and acceptNode filters them, splitting the node of
\* the selection.  The result is the document and selection after the splits
\* and the accepted nodes as <<element, child index>>.  When the selection's
\* string is empty and the selection still touches the node, splitText(0) leaves
\* an empty node behind and hands the whole text to the next visit, which does
\* the same: the walk does not end (hung).
Walk(ds, cfg, root, c, i, acc) ==
  IF c > Len(ds.doc)
  THEN [doc |-> ds.doc, sel |-> ds.sel, acc |-> acc, hung |-> FALSE]
  ELSE IF ds.doc[c].root # root \/ i > Len(ds.doc[c].kids)
  THEN Walk(ds, cfg, root, c + 1, 1, acc)
  ELSE IF ds.doc[c].kids[i].t # "text"
  THEN Walk(ds, cfg, root, c, i + 1, acc)
  ELSE
    LET text == ds.doc[c].kids[i].s
        raw  == SelectionToString(ds.doc, ds.sel)
    IN IF cfg.excludeSelf /\ ContainsNode(ds.sel, c, i)
       THEN IF ~RegexMultiOccurrences(raw, text)
            THEN Walk(ds, cfg, root, c, i + 1, acc)
            ELSE LET k   == IndexOf(text, raw) + Len(raw)
                     ds2 == SplitText(ds, c, i, k)
                 IN IF k = 0 /\ ContainsNode(ds2.sel, c, i + 1)
                    THEN [doc |-> ds.doc, sel |-> ds.sel, acc |-> acc,
                          hung |-> TRUE]
                    ELSE Walk(ds2, cfg, root, c, i + 1,
                              IF ContainsNode(ds2.sel, c, i + 1)
                              THEN Append(acc, <<c, i>>) ELSE acc)
       ELSE IF cfg.excludeParents /\ HasParentInChain(ds.doc, c, "excl")
       THEN Walk(ds, cfg, root, c, i + 1, acc)
       ELSE Walk(ds, cfg, root, c, i + 1, Append(acc, <<c, i>>))

TextNodesUnder(ds, cfg, root) == Walk(ds, cfg, root, 1, 1, <<>>)

\* part_000:101-107, highlightTemplate: a new <span> whose content is the result
\* of parsing `text` as HTML (span.innerHTML = text).
HighlightTemplate(text, id) == SpanNode(ParseHTMLText(text), id)

\* The identity of the next wrapper created: the wrappers of one generation in
\* the order of their creation (the insertion order of the Set).
NewId(es) == 2 * (Cardinality(es.ann) + 1) + es.gen

RECURSIVE AnnotateTextNode(_, _, _, _)
\* part_000:110-131, annotateTextNode(node, text) for child i of element c.  The
\* result carries `added`, the number of children the element gained.
AnnotateTextNode(es, c, i, text) ==
  LET s  == es.doc[c].kids[i].s
      ds == [doc |-> es.doc, sel |-> es.sel]
  IN IF s = <<>> THEN [es |-> es, added |-> 0]
     ELSE IF Trim(s) = text
     THEN LET r == ReplaceWith(ds, c, i, HighlightTemplate(s, NewId(es)))
          IN [es |-> [es EXCEPT !.doc = r.doc, !.sel = r.sel,
                                !.ann = @ \cup {NewId(es)}],
              added |-> 0]
     ELSE LET matchIndex == IndexOf(s, text)
          IN IF matchIndex = -1 THEN [es |-> es, added |-> 0]
             ELSE LET d1 == SplitText(ds, c, i, matchIndex)
                      d2 == SplitText(d1, c, i + 1, Len(text))
                      d3 == ReplaceWith(d2, c, i + 1,
                                        HighlightTemplate(text, NewId(es)))
                      es3 == [es EXCEPT !.doc = d3.doc, !.sel = d3.sel,
                                        !.ann = @ \cup {NewId(es)}]
                      rec == AnnotateTextNode(es3, c, i + 2, text)
                  IN [es |-> rec.es, added |-> rec.added + 2]

RECURSIVE AnnotateEach(_, _, _, _, _)
\* part_000:88-90, textNodes.forEach(annotateTextNode): the accepted nodes in
\* order; `shift` is the number of children element lastC gained before the node.
AnnotateEach(es, acc, text, lastC, shift) ==
  IF acc = <<>> THEN es
  ELSE LET c  == Head(acc)[1]
           sh == IF c = lastC THEN shift ELSE 0
           r  == AnnotateTextNode(es, c, Head(acc)[2] + sh, text)
       IN AnnotateEach(r.es, Tail(acc), text, c, sh + r.added)

\* part_000:66 with the comparison left out.
SameAsCurrentNever(text, cur) == FALSE

\* part_000:66, `curSelectedText === this.currentHighlightText`.
SameAsCurrent(text, cur) == text = cur

\* part_000:69-77 with the noHighlightWithin test left out.
AnchorInNoHighlightNever(es, cfg) == FALSE

\* part_000:69-77: the selection's anchor node (the Text node of its start) has an
\* ancestor matched by a noHighlightWithin selector.
AnchorInNoHighlight(es, cfg) ==
  /\ cfg.noHighlightWithin
  /\ es.sel.c # 0
  /\ es.sel.so # -1
  /\ HasParentInChain(es.doc, es.sel.c, "editable")

\* part_000:83-98, one iteration of the loop over the roots: the innerHTML gate,
\* the walk and the annotation of the accepted nodes.
AnnotateRoot(es, cfg, root, text) ==
  IF ~es.hung /\ Includes(InnerHTML(es.doc, root, 1), text)
  THEN LET w  == TextNodesUnder([doc |-> es.doc, sel |-> es.sel], cfg, root)
           e2 == AnnotateEach([es EXCEPT !.doc = w.doc, !.sel = w.sel],
                              w.acc, text, 0, 0)
       IN IF w.hung THEN [es EXCEPT !.hung = TRUE]
          ELSE [e2 EXCEPT !.cur = text]
  ELSE es

\* part_000:82-98, the roots in the order of the loop: document.body, then the
\* shadow roots of the elements of the body.
Roots == <<"body", "shadow">>

\* part_000:60-99, highlight().
HighlightPass(es, cfg) ==
  LET text == SelectedText(es.doc, es.sel)
  IN IF text = <<>> \/ Len(text) <= 2 THEN es
     ELSE IF SameAsCurrent(text, es.cur) THEN es
     ELSE IF AnchorInNoHighlight(es, cfg) THEN es
     ELSE AnnotateRoot(AnnotateRoot(ResetAll(es), cfg, Roots[1], text),
                       cfg, Roots[2], text)

\* The engine state held by the variables.
Engine ==
  [doc |-> doc, sel |-> selection, ann |-> annotatedNodes,
   cur |-> currentHighlightText, gen |-> gen, hung |-> hung]

\* The modelled pages.
Abc == <<"a", "b", "c">>

Price == <<"$", "5", "a">>

Amp == <<"&", "a", "m", "p", ";">>

HLDocs ==
  << \* a paragraph with two occurrences, an excluded element, a shadow root
     << Element("p", "body", Abc \o <<" ">> \o Abc),
        Element("excl", "body", Abc),
        Element("p", "shadow", <<"x">> \o Abc) >>,
     \* prices, and a content-editable element
     << Element("p", "body", Price \o <<" ">> \o Price),
        Element("editable", "body", Abc \o <<" ">>) >>,
     \* text that reads like a character reference
     << Element("p", "body", <<"x">> \o Amp),
        Element("p", "body", Amp) >> >>

\* part_000:16-23, the default configuration.
DefaultConfig ==
  [excludeSelf |-> TRUE, excludeParents |-> FALSE, noHighlightWithin |-> TRUE]

\* The pages with the configurations they are shown under.
HLScenarios ==
  { [d |-> 1, cfg |-> DefaultConfig],
    [d |-> 1, cfg |-> [DefaultConfig EXCEPT !.excludeSelf = FALSE]],
    [d |-> 1, cfg |-> [DefaultConfig EXCEPT !.excludeParents = TRUE]],
    [d |-> 2, cfg |-> DefaultConfig],
    [d |-> 2, cfg |-> [DefaultConfig EXCEPT !.noHighlightWithin = FALSE]],
    [d |-> 3, cfg |-> DefaultConfig],
    [d |-> 3, cfg |-> [DefaultConfig EXCEPT !.excludeSelf = FALSE]] }

\* The selections a user makes: a non-empty range inside one Text node of an
\* element of the body.
Selections(dc) ==
  UNION { UNION { { [c |-> c, sn |-> n, so |-> a, en |-> n, eo |-> b] :
                      a \in 0 .. (Len(dc[c].kids[n].s) - 1),
                      b \in 1 .. Len(dc[c].kids[n].s) } :
                  n \in DOMAIN dc[c].kids } :
          c \in {x \in DOMAIN dc : dc[x].root = "body"} }

\* The engine before the feature has run (part_000:25-27, part_003:14).
HLIdle ==
  /\ selection = NoSelection
  /\ currentHighlightText = <<>>
  /\ annotatedNodes = {}
  /\ gen = 0
  /\ listening = FALSE
  /\ timer = FALSE
  /\ hung = FALSE
  /\ teardownQueue = 0
  /\ repeat = 0

\* The highlighter as the other components' specifications hold it.
HLFixed ==
  /\ docId = 1
  /\ config = DefaultConfig
  /\ doc = HLDocs[1]
  /\ HLIdle

HLInit ==
  /\ \E sc \in HLScenarios : docId = sc.d /\ config = sc.cfg
  /\ doc = HLDocs[docId]
  /\ HLIdle

\* The user changes the selection, or the selectionchange event fires again for
\* the same selection; the attached listener (re)arms the debounce timer
\* (utils.ts:241-244).
Select ==
  /\ ~hung
  /\ \E sl \in {s \in Selections(doc) : s.so < s.eo} \cup {NoSelection} :
       /\ selection' = sl
       /\ repeat' = (IF sl = selection THEN repeat ELSE 0)
  /\ timer' = (timer \/ listening)
  /\ UNCHANGED <<docId, config, doc, currentHighlightText, annotatedNodes, gen,
                 listening, hung, teardownQueue>>
  /\ UNCHANGED <<imVars, alfVars, miscVars>>

\* utils.ts:243 and part_000:27: the debounce timer fires and calls highlight().
\* A pass that moves the selection's boundary points raises selectionchange.
Highlight ==
  /\ ~hung
  /\ timer
  /\ LET es == HighlightPass(Engine, config)
     IN /\ doc' = es.doc
        /\ selection' = es.sel
        /\ annotatedNodes' = es.ann
        /\ currentHighlightText' = es.cur
        /\ gen' = es.gen
        /\ hung' = es.hung
        /\ timer' = (listening /\ es.sel # selection)
        /\ repeat' = (IF SelectionToString(es.doc, es.sel)
                            = SelectionToString(doc, selection)
                       THEN Min(repeat + 1, 2) ELSE 0)
  /\ UNCHANGED <<docId, config, listening, teardownQueue>>
  /\ UNCHANGED <<imVars, alfVars, miscVars>>

\* part_000:38-44, run(): the listener is attached and a teardown action pushed.
HLRun ==
  /\ ~hung
  /\ teardownQueue < MaxHLRuns
  /\ listening' = TRUE
  /\ teardownQueue' = teardownQueue + 1
  /\ repeat' = 0
  /\ UNCHANGED <<docId, config, doc, selection, currentHighlightText,
                 annotatedNodes, gen, timer, hung>>
  /\ UNCHANGED <<imVars, alfVars, miscVars>>

\* part_003:40-46 and part_000:40-43, cleanup(): every teardown action of the
\* queue removes the listener and calls resetAll; the queue is kept.
HLCleanup ==
  /\ ~hung
  /\ IF teardownQueue = 0
     THEN UNCHANGED <<doc, selection, annotatedNodes, currentHighlightText, gen,
                      listening>>
     ELSE LET es == ResetAll(Engine)
          IN /\ doc' = es.doc
             /\ selection' = es.sel
             /\ annotatedNodes' = es.ann
             /\ currentHighlightText' = es.cur
             /\ gen' = es.gen
             /\ listening' = FALSE
  /\ repeat' = 0
  /\ UNCHANGED <<docId, config, timer, hung, teardownQueue>>
  /\ UNCHANGED <<imVars, alfVars, miscVars>>

HLNext == Select \/ Highlight \/ HLRun \/ HLCleanup

----------------------------------------------------------------------------
(***************************************************************************)
(* debounce, utils.ts:238-246.  newFn is the function debounce returns for *)
(* a callback fn and the default bounceTime.  A timeout set by setTimeout  *)
(* has a handle (1, 2, ...) and a due time; the event loop runs its        *)
(* callback once, at the due time or later, unless clearTimeout removed it *)
(* before.                                                                 *)
(***************************************************************************)
DbMaxTime == StartTime + MaxDbCalls * BounceTime

\* The clock advances in half quiet periods.
DbStep == BounceTime \div 2

DbInit ==
  /\ dbTimer = 0
  /\ dbTimeouts = {}
  /\ dbNow = StartTime
  /\ dbLog = <<>>

\* utils.ts:242 with the clearTimeout call left out.
ClearTimeoutNoop(timeouts, handle) == timeouts

\* clearTimeout(handle): no effect when the handle names no pending timeout.
ClearTimeout(timeouts, handle) == {x \in timeouts : x.id # handle}

DbCalls == Len(SelectSeq(dbLog, LAMBDA x : x.e = "call"))

\* utils.ts:241-244, a call of newFn.
DbCall ==
  /\ DbCalls < MaxDbCalls
  /\ LET cleared == IF dbTimer # 0 THEN ClearTimeout(dbTimeouts, dbTimer)
                    ELSE dbTimeouts
         handle  == DbCalls + 1
     IN /\ dbTimeouts' = cleared \cup {[id |-> handle, due |-> dbNow + BounceTime]}
        /\ dbTimer' = handle
  /\ dbLog' = Append(dbLog, [e |-> "call", at |-> dbNow])
  /\ UNCHANGED <<dbNow, registry, regErrors, regLog, bgVars, tdVars>>
  /\ UNCHANGED <<imVars, alfVars, hlVars>>

\* utils.ts:243, the callback of a timeout runs: `fn(...args)`.
DbFire ==
  /\ \E x \in dbTimeouts :
       /\ dbNow >= x.due
       /\ dbTimeouts' = dbTimeouts \ {x}
  /\ dbLog' = Append(dbLog, [e |-> "fire", at |-> dbNow])
  /\ UNCHANGED <<dbTimer, dbNow, registry, regErrors, regLog, bgVars, tdVars>>
  /\ UNCHANGED <<imVars, alfVars, hlVars>>

\* Time passes.
DbAdvance ==
  /\ dbNow < DbMaxTime
  /\ dbNow' = dbNow + DbStep
  /\ UNCHANGED <<dbTimer, dbTimeouts, dbLog, registry, regErrors, regLog, bgVars,
                 tdVars>>
  /\ UNCHANGED <<imVars, alfVars, hlVars>>

DbNext == DbCall \/ DbFire \/ DbAdvance

----------------------------------------------------------------------------
(***************************************************************************)
(* Alfred.features and Alfred.registerFeature, part_003:77-85.  The        *)
(* constructors are the two of the repository and a third one whose        *)
(* instances carry the name of the highlighter.  An instance is identified *)
(* by the number of the registerFeature call that constructed it.          *)
(***************************************************************************)
Constructors == {"SelectionHighlighter", "FeatureToggles", "Other"}

\* part_000:12, part_002:5: the `name` field of the instances of a constructor.
NameOf(ctor) == IF ctor = "FeatureToggles" THEN "FT" ELSE "SH"

RegInit ==
  /\ registry = <<>>
  /\ regErrors = 0
  /\ regLog = <<>>

\* part_003:80 with Map.has finding nothing.
MapHasNever(map, name) == FALSE

\* Map.prototype.has.
MapHas(map, name) == \E i \in DOMAIN map : map[i].name = name

\* Map.prototype.set: the value of a present key is replaced in place, a new key
\* is added behind the others.
MapSet(map, entry) ==
  IF \E i \in DOMAIN map : map[i].name = entry.name
  THEN [i \in DOMAIN map |-> IF map[i].name = entry.name THEN entry ELSE map[i]]
  ELSE Append(map, entry)

\* part_003:78-85, Alfred.registerFeature(featureC).
RegisterFeature ==
  /\ Len(regLog) < MaxRegCalls
  /\ \E featureC \in Constructors :
       LET feature == [name |-> NameOf(featureC), ctor |-> featureC,
                       inst |-> Len(regLog) + 1]
       IN /\ IF MapHas(registry, feature.name)
             THEN /\ regErrors' = regErrors + 1
                  /\ UNCHANGED registry
             ELSE /\ registry' = MapSet(registry, feature)
                  /\ UNCHANGED regErrors
          /\ regLog' = Append(regLog, featureC)
  /\ UNCHANGED <<dbTimer, dbTimeouts, dbNow, dbLog, bgVars, tdVars>>
  /\ UNCHANGED <<imVars, alfVars, hlVars>>

RegNext == RegisterFeature

----------------------------------------------------------------------------
(***************************************************************************)
(* The background settings store, part_002:143-184: the onMessage listener *)
(* for UPDATE_SETTINGS_REQUEST.  A settings mapping is a function from     *)
(* feature names to entries, an entry a function from some of the fields   *)
(* "enabled" and "value" to their values.  chrome.storage carries out the  *)
(* operations it is asked for in the order of the calls and hands each     *)
(* callback a copy of the data.                                            *)
(***************************************************************************)
NoSettings == << >>

NoMessage == "none"

\* options.ts:52-65, part_002:79-92: the settings an update request may carry.
RequestSettings ==
  { [n \in {"SH"} |-> [k \in {"enabled"} |-> "false"]],
    [n \in {"FT"} |-> [k \in {"enabled"} |-> "true"]],
    [n \in {"SH"} |-> [k \in {"enabled", "value"} |->
                          IF k = "enabled" THEN "true" ELSE "v1"]] }

\* What the store holds before the first request.
StoredChoices ==
  { NoSettings,
    [n \in {"SH", "FT"} |-> [k \in {"enabled"} |-> IF n = "SH" THEN "true" ELSE "false"]] }

\* Object.assign({}, old, new), part_002:164-165, old being undefined for a name
\* the stored settings do not have.
AssignEntry(old, new) ==
  [k \in DOMAIN old \cup DOMAIN new |-> IF k \in DOMAIN new THEN new[k] ELSE old[k]]

\* part_002:161-166: the entries of the request merged into the settings read.
MergeSettings(read, request) ==
  [n \in DOMAIN read \cup DOMAIN request |->
     IF n \in DOMAIN request
     THEN AssignEntry(IF n \in DOMAIN read THEN read[n] ELSE << >>,
                      request[n])
     ELSE read[n]]

BgInit ==
  /\ stored = NoSettings
  /\ storeQueue = <<>>
  /\ notified = NoMessage
  /\ received = <<>>
  /\ storedInit = NoSettings

BgInitAnyStored ==
  /\ stored \in StoredChoices
  /\ storeQueue = <<>>
  /\ notified = NoMessage
  /\ received = <<>>
  /\ storedInit = stored

\* part_002:158-160: an UPDATE_SETTINGS_REQUEST arrives; the listener asks the
\* storage for the settings and returns.
UpdateRequest ==
  /\ Len(received) < MaxRequests
  /\ \E request \in RequestSettings :
       /\ storeQueue' = Append(storeQueue, [op |-> "get", data |-> request])
       /\ received' = Append(received, request)
  /\ UNCHANGED <<stored, notified, storedInit>>
  /\ UNCHANGED <<dbTimer, dbTimeouts, dbNow, dbLog, registry, regErrors, regLog>>
  /\ UNCHANGED <<imVars, alfVars, hlVars, tdVars>>

\* The storage carries out its oldest operation and its callback runs.  For a
\* get, part_002:160-169: the callback merges the request into the settings read
\* and asks the storage to set the result.  For a set, part_002:169-171: the
\* settings are stored and the callback notifies the tabs.
StorageCallback ==
  /\ storeQueue # <<>>
  /\ LET head == Head(storeQueue)
     IN IF head.op = "get"
        THEN /\ storeQueue' = Append(Tail(storeQueue),
                                [op |-> "set",
                                 data |-> MergeSettings(stored, head.data)])
             /\ UNCHANGED <<stored, notified>>
        ELSE /\ storeQueue' = Tail(storeQueue)
             /\ stored' = head.data
             /\ notified' = head.data
  /\ UNCHANGED <<received, storedInit>>
  /\ UNCHANGED <<dbTimer, dbTimeouts, dbNow, dbLog, registry, regErrors, regLog>>
  /\ UNCHANGED <<imVars, alfVars, hlVars, tdVars>>

BgNext == UpdateRequest \/ StorageCallback

----------------------------------------------------------------------------
(***************************************************************************)
(* Feature.teardownQueue of the built-in features, part_003:14,40-46 with  *)
(* part_000:38-44 and part_002:112-119.  The runtime calls cleanup() and   *)
(* run() from its passes (part_003:152,156-158); both run to their end     *)
(* without an await, and passes in flight together call them in any order. *)
(***************************************************************************)
TdInit ==
  /\ teardowns = [f \in Features |-> <<>>]
  /\ executed = [f \in Features |-> <<>>]

\* run() with a queue that holds the newest teardown action only.
PushTeardownOnly(queue, td) == <<td>>

\* part_000:40 and part_002:114, this.teardownQueue.push(...).
PushTeardown(queue, td) == Append(queue, td)

\* part_003:42-45, teardownQueue.forEach(tdfn => tdfn()): the actions executed,
\* in the order of their execution.
ForEachTeardown(queue) == [i \in 1 .. Len(queue) |-> queue[i]]

\* part_003:156-158 with the body of the built-in run(), part_000:38-44 and
\* part_002:112-119: the runtime stamps the statistics and calls run(), which
\* attaches the feature's listener and pushes one teardown action.
FeatureRun(f) ==
  /\ feat[f].runTimes < MaxRuns
  /\ feat' = [feat EXCEPT ![f].lastRunTime = now, ![f].runTimes = @ + 1]
  /\ teardowns' = [teardowns EXCEPT
                     ![f] = PushTeardown(@, feat[f].runTimes + 1)]
  /\ doubleRun' = [doubleRun EXCEPT ![f] = @ \/ active[f]]
  /\ active' = [active EXCEPT ![f] = TRUE]
  /\ UNCHANGED executed
  /\ UNCHANGED <<settings, passes, nSet, lastNoRun, raised, priority>>
  /\ UNCHANGED <<dbTimer, dbTimeouts, dbNow, dbLog, registry, regErrors, regLog>>
  /\ UNCHANGED <<imVars, hlVars, bgVars>>

\* part_003:40-46, cleanup(): every action of the queue is executed; each removes
\* the feature's listener (part_000:41, part_002:115).  The queue is left alone.
FeatureCleanup(f) ==
  /\ Len(executed[f]) < MaxCleanups
  /\ LET done == ForEachTeardown(teardowns[f])
     IN /\ executed' = [executed EXCEPT ![f] = Append(@, done)]
        /\ active' = [active EXCEPT ![f] = IF done = <<>> THEN @ ELSE FALSE]
  /\ UNCHANGED teardowns
  /\ UNCHANGED <<feat, settings, passes, nSet, lastNoRun, raised, doubleRun,
                 priority>>
  /\ UNCHANGED <<dbTimer, dbTimeouts, dbNow, dbLog, registry, regErrors, regLog>>
  /\ UNCHANGED <<imVars, hlVars, bgVars>>

TdRun == \E f \in Features : FeatureRun(f)

TdCleanup == \E f \in Features : FeatureCleanup(f)

TdNext == TdRun \/ TdCleanup

MiscInit == DbInit /\ RegInit /\ BgInit /\ TdInit

----------------------------------------------------------------------------
(***************************************************************************)
(* Specifications, one per component.                                      *)
(***************************************************************************)
InitIM == IMInit /\ AlfInit /\ HLFixed /\ MiscInit

SpecIM == InitIM /\ [][IMNext]_vars

\* The scheduler under an event loop that runs a due timer callback, with time
\* passing and every invocation of instance.run() settling.
SpecIMLive ==
  SpecIM /\ WF_vars(Tick) /\ WF_vars(Settle) /\ WF_vars(Advance)

InitAlfred == IMInit /\ AlfInit /\ HLFixed /\ MiscInit

SpecAlfred == InitAlfred /\ [][AlfNext]_vars

SpecReconcile == InitAlfred /\ [][RcNext]_vars

InitOrder == IMInit /\ AlfInitAnyPriority /\ HLFixed /\ MiscInit

SpecOrder == InitOrder /\ [][AlfNext]_vars

InitHL == IMInit /\ AlfInit /\ HLInit /\ MiscInit

SpecHL == InitHL /\ [][HLNext]_vars

SpecDebounce == InitIM /\ [][DbNext]_vars

SpecRegistry == InitAlfred /\ [][RegNext]_vars

InitStore ==
  IMInit /\ AlfInit /\ HLFixed /\ DbInit /\ RegInit /\ BgInitAnyStored /\ TdInit

SpecStore == InitStore /\ [][BgNext]_vars

SpecTeardown == InitAlfred /\ [][TdNext]_vars

----------------------------------------------------------------------------
\* C1: the work of a task is never invoked while a previous invocation of the
\* same task has not settled: no instance ever has two invocations in flight.
C1_NoOverlap == \A i \in TaskIds : inflight[i] <= 1

\* A tick found a task still executing and skipped it.
C1_Witness ==
  \E k \in DOMAIN intervalPool :
     /\ intervalPool[k].isExecuting
     /\ intervalPool[k].id \in lastTick.skipped
     /\ inflight[intervalPool[k].id] = 1

----------------------------------------------------------------------------
\* The set of features the reconciliation must run according to the statement
\* "never ran, absent from S, enabled differs, or value differs from S's value"
\* (a feature without a value has the value undefined).
ClaimedRunSet(ft, S) ==
  {f \in Features :
     \/ ft[f].lastRunTime = 0
     \/ f \notin DOMAIN S
     \/ /\ f \in DOMAIN S
        /\ (ft[f].enabled # S[f].enabled \/ ft[f].value # S[f].value)}

\* The same set, the value compared only for the features that carry an own
\* value property.
AmendedRunSet(ft, S) ==
  {f \in Features :
     \/ ft[f].lastRunTime = 0
     \/ f \notin DOMAIN S
     \/ /\ f \in DOMAIN S
        /\ \/ ft[f].enabled # S[f].enabled
           \/ f \in {g \in Features : HasValue[g]} /\ ft[f].value # S[f].value}

\* A setSettings(S) call (noRun false) hands exactly the set `expected` to run:
\* it starts one pass over these features, each once, or none when the set is empty.
HandsToRun(expected) ==
  IF expected = {}
  THEN passes' = passes
  ELSE /\ Len(passes') = Len(passes) + 1
       /\ Range(passes'[Len(passes')].list) = expected
       /\ Len(passes'[Len(passes')].list) = Cardinality(expected)

\* C2 (as stated): setSettings(S) hands to run exactly the features that never
\* ran, are absent from S, or whose enabled flag or value differs from S's entry.
C2_Original ==
  [][(nSet' = nSet + 1 /\ ~lastNoRun') => HandsToRun(ClaimedRunSet(feat, settings'))]_vars

\* C2 (amended): setSettings(S) hands to run exactly the features that never ran,
\* are absent from S, whose enabled flag differs from S's entry, or that carry an
\* own value property and whose value differs from the value in S's entry.
C2_Amended ==
  [][(nSet' = nSet + 1 /\ ~lastNoRun') => HandsToRun(AmendedRunSet(feat, settings'))]_vars

\* The second setSettings call carried a value for the feature toggles, which have
\* run before and have no value of their own, and handed nothing to run.
C2_Witness ==
  /\ nSet = 2
  /\ ~lastNoRun
  /\ Len(passes) = 1
  /\ feat["FT"].lastRunTime # 0
  /\ "FT" \in DOMAIN settings
  /\ settings["FT"].value = "v1"

\* The calls of the runtime that are awaited by a running pass.
Awaited == {p \in DOMAIN passes : passes[p].pc \in {"cleanup", "shouldRun", "run"}}

\* C3: within a pass every exception or timeout of cleanup, shouldRun or run is
\* appended to the feature's failures, the pass's promise never rejects, and the
\* pass ends only after every feature of its list has been processed.
C3_FaultIsolation ==
  /\ \A f \in Features : feat[f].failures = raised[f]
  /\ \A p \in DOMAIN passes :
        /\ passes[p].status # "rejected"
        /\ passes[p].pc = "done" => passes[p].idx = Len(passes[p].list) + 1
        /\ passes[p].pc # "done" => passes[p].idx \in 1 .. Len(passes[p].list)

\* The only pass resolved after its first feature raised an error and its second
\* feature was run.
C3_Witness ==
  /\ Len(passes) = 1
  /\ passes[1].status = "resolved"
  /\ Len(passes[1].list) = 2
  /\ raised[passes[1].list[1]] # <<>>
  /\ feat[passes[1].list[2]].runTimes = 1

\* The step in which the timeout of pass p's awaited cleanup is recorded.
TimeoutStep(p) ==
  /\ passes[p].pc = "cleanup"
  /\ passes'[p] # passes[p]
  /\ raised'[CurFeature(p)] = Append(raised[CurFeature(p)], "timeout")

\* C4 (as stated): when the cleanup has not settled after the timeout, the failure
\* is recorded and the runtime proceeds to the same feature's enabled check and,
\* for an enabled feature, to its shouldRun() and run().
C4_Original ==
  [][\A p \in DOMAIN passes :
       (TimeoutStep(p) /\ feat[CurFeature(p)].enabled) =>
          /\ feat'[CurFeature(p)].failures = Append(feat[CurFeature(p)].failures, "timeout")
          /\ passes'[p].idx = passes[p].idx
          /\ passes'[p].pc = "shouldRun"]_vars

\* C4 (amended): when the cleanup has not settled, the timeout failure is recorded
\* once 5000 ms have elapsed and not before, and the pass goes on with the next
\* feature: the timed-out feature's shouldRun and run are not invoked and its
\* run statistics are unchanged.
C4_Amended ==
  [][\A p \in DOMAIN passes :
       TimeoutStep(p) =>
          /\ passes[p].waited >= DeactivationTimeout
          /\ feat'[CurFeature(p)].failures = Append(feat[CurFeature(p)].failures, "timeout")
          /\ feat'[CurFeature(p)].runTimes = feat[CurFeature(p)].runTimes
          /\ feat'[CurFeature(p)].lastRunTime = feat[CurFeature(p)].lastRunTime
          /\ passes'[p].idx = passes[p].idx + 1
          /\ passes'[p].pc \in {"cleanup", "done"}
          /\ passes'[p].status # "rejected"]_vars

\* An enabled feature's cleanup timed out, the pass went on to its end, and the
\* feature was never run.
C4_Witness ==
  \E f \in Features :
     /\ feat[f].enabled
     /\ feat[f].failures = <<"timeout">>
     /\ feat[f].runTimes = 0
     /\ Len(passes) = 1
     /\ passes[1].status = "resolved"

\* C5: at no time are calls of two different features awaited by the runtime.
C5_Serialized ==
  Cardinality({passes[p].list[passes[p].idx] : p \in Awaited}) <= 1

\* C6: a feature's run() is never invoked twice without an invocation of its
\* cleanup() in between.
C6_CleanupBetweenRuns == \A f \in Features : ~doubleRun[f]

----------------------------------------------------------------------------
\* A step of the debounced highlight(): it alone consumes the pending timer, hangs,
\* or changes the document while the listener stays attached.
HighlightStep ==
  /\ ~hung
  /\ timer
  /\ \/ hung'
     \/ ~timer'
     \/ (listening /\ listening' /\ doc' # doc)

RECURSIVE NormalKids(_)
\* The children of an element up to merging of adjacent Text nodes: empty Text
\* nodes dropped, neighbouring Text nodes joined.
NormalKids(kids) ==
  IF kids = <<>> THEN <<>>
  ELSE IF Head(kids).t = "text" /\ Head(kids).s = <<>> THEN NormalKids(Tail(kids))
  ELSE LET rest == NormalKids(Tail(kids))
       IN IF Head(kids).t = "text" /\ rest # <<>> /\ Head(rest).t = "text"
          THEN <<TextNode(Head(kids).s \o Head(rest).s)>> \o Tail(rest)
          ELSE <<Head(kids)>> \o rest

NoSpans(dc) ==
  \A c \in DOMAIN dc : \A j \in DOMAIN dc[c].kids : dc[c].kids[j].t # "span"

\* C7: whenever the annotated-node set is empty (before any pass, and after a
\* resetAll that follows any number of passes) every element holds the text it
\* held before any annotation, in the same nodes up to merging of adjacent Text
\* nodes, and no wrapper is left.
C7_RoundTrip ==
  annotatedNodes = {} =>
    \A c \in DOMAIN doc : NormalKids(doc[c].kids) = HLDocs[docId][c].kids

\* C8: a highlight() call that follows a highlight() call with the same, unchanged
\* selection string changes neither the document nor the annotated-node set nor
\* the current search string.
C8_Idempotent ==
  [][(HighlightStep /\ repeat >= 1) =>
        UNCHANGED <<doc, annotatedNodes, currentHighlightText>>]_vars

\* highlight() was called twice in a row with the same selection string while
\* the document is annotated for it.
C8_Witness ==
  /\ repeat = 2
  /\ annotatedNodes # {}
  /\ currentHighlightText = SelectedText(doc, selection)

\* C9: a highlight() call made in the annotated state with a selection that is
\* empty, white space only or at most 2 characters long unwraps every annotated
\* node and creates no wrap.
C9_ShortSelectionClears ==
  [][(HighlightStep /\ annotatedNodes # {}
        /\ Len(SelectedText(doc, selection)) <= 2) =>
        (annotatedNodes' = {} /\ NoSpans(doc'))]_vars

\* The selection lies inside one Text node that is a child of its element, and
\* selects a string without white space at its ends.
PlainSelection ==
  /\ selection.c # 0
  /\ selection.sn = selection.en
  /\ 0 <= selection.so
  /\ selection.so < selection.eo
  /\ doc[selection.c].kids[selection.sn].t = "text"
  /\ SelectionToString(doc, selection) = SelectedText(doc, selection)

\* The highlight() call of this step proceeds to a pass over the document.
PassProceeds ==
  /\ HighlightStep
  /\ ~hung'
  /\ Len(SelectedText(doc, selection)) > 2
  /\ SelectedText(doc, selection) # currentHighlightText
  /\ ~AnchorInNoHighlight(Engine, config)

\* C10: with excludeSelf, a pass for a selection inside a Text node of an element
\* that is not excluded leaves the selection's own occurrence unwrapped (the
\* selection still selects the same string in a Text node), and no other
\* occurrence of the selected text is left in a Text node of the element: every
\* other occurrence has been wrapped.
C10_ExcludeSelf ==
  [][(PassProceeds /\ config.excludeSelf /\ PlainSelection
        /\ ~(config.excludeParents /\ doc[selection.c].kind = "excl")) =>
        LET text == SelectedText(doc, selection)
            kids == doc'[selection.c].kids
            sl   == selection'
        IN /\ sl.c = selection.c
           /\ sl.sn = sl.en
           /\ sl.so >= 0
           /\ kids[sl.sn].t = "text"
           /\ SelectionToString(doc', sl) = text
           /\ \A j \in DOMAIN kids :
                kids[j].t = "text" =>
                  \A k \in Occurrences(kids[j].s, text) : j = sl.sn /\ k = sl.so]_vars

----------------------------------------------------------------------------
\* The selection's anchor node is a Text node below an element that a configured
\* noHighlightWithin selector matches.
AnchorInsideRegion ==
  /\ config.noHighlightWithin
  /\ selection.c # 0
  /\ selection.so >= 0
  /\ doc[selection.c].kind = "editable"

\* C11: a highlight() call made while the selection's anchor node has an ancestor
\* matching a noHighlightWithin selector changes neither the document nor the
\* annotated-node set nor the current search string.
C11_NoHighlightWithin ==
  [][(HighlightStep /\ AnchorInsideRegion) =>
        UNCHANGED <<doc, annotatedNodes, currentHighlightText>>]_vars

\* highlight() has been called for a selection of more than 2 characters inside
\* the content-editable element, other than the current search string, and the
\* document is idle.
C11_Witness ==
  /\ AnchorInsideRegion
  /\ repeat >= 1
  /\ ~timer
  /\ Len(SelectedText(doc, selection)) > 2
  /\ SelectedText(doc, selection) # currentHighlightText
  /\ annotatedNodes = {}
  /\ NoSpans(doc)

----------------------------------------------------------------------------
\* The positions of the calls of newFn and of the invocations of fn in the log.
CallsAt == {i \in DOMAIN dbLog : dbLog[i].e = "call"}

FiresAt == {i \in DOMAIN dbLog : dbLog[i].e = "fire"}

FiresBetween(i, j) == {f \in FiresAt : i < f /\ f < j}

\* The call at position j is the first call after the call at position i.
NextCall(i, j) ==
  /\ i \in CallsAt /\ j \in CallsAt /\ i < j
  /\ \A k \in CallsAt : ~(i < k /\ k < j)

LastCall(i) == i \in CallsAt /\ \A k \in CallsAt : k <= i

\* fn is invoked only behind a call, not synchronously with it and not before
\* the quiet period has elapsed since the last call in front of the invocation.
FiresAfterQuietPeriod ==
  \A f \in FiresAt :
    \E i \in CallsAt :
      /\ i < f
      /\ \A k \in CallsAt : k < f => k <= i
      /\ dbLog[f].at >= dbLog[i].at + BounceTime

\* No invocation inside a burst; one invocation behind the last call once its
\* timeout is no longer pending.
BurstInteriorAndTail ==
  /\ \A i, j \in CallsAt :
       (NextCall(i, j) /\ dbLog[j].at - dbLog[i].at < BounceTime)
         => FiresBetween(i, j) = {}
  /\ \A i \in CallsAt :
       LastCall(i) =>
         Cardinality(FiresBetween(i, Len(dbLog) + 1)) =
           (IF dbTimeouts = {} THEN 1 ELSE 0)

\* C12 as stated: fn is never invoked synchronously; every maximal burst of calls
\* that follow each other by less than the quiet period results in exactly one
\* invocation, not before the quiet period has elapsed since the burst's last call.
C12_Original ==
  /\ FiresAfterQuietPeriod
  /\ BurstInteriorAndTail
  /\ \A i, j \in CallsAt :
       (NextCall(i, j) /\ dbLog[j].at - dbLog[i].at >= BounceTime)
         => Cardinality(FiresBetween(i, j)) = 1

\* C12 (amended): fn is never invoked synchronously nor before the quiet period
\* has elapsed since the last call; a call that follows the previous one by less
\* than the quiet period suppresses its invocation; between two calls fn is
\* invoked at most once, and exactly once behind a call whose timeout has run.
C12_Amended ==
  /\ FiresAfterQuietPeriod
  /\ BurstInteriorAndTail
  /\ \A i, j \in CallsAt :
       NextCall(i, j) => Cardinality(FiresBetween(i, j)) <= 1

\* A burst of two calls less than the quiet period apart, its one invocation,
\* and a later call.
C12_Witness ==
  /\ Len(dbLog) > 3
  /\ dbLog[1].e = "call" /\ dbLog[2].e = "call"
  /\ dbLog[2].at - dbLog[1].at < BounceTime
  /\ dbLog[3].e = "fire"
  /\ dbLog[4].e = "call"

----------------------------------------------------------------------------
\* C13: after every IntervalManager operation (add, handle.stop()/remove, a tick
\* with its removals by stop-predicate) the repeating timer is armed if and only
\* if the pool is non-empty, so no tick fires while the pool is empty.  (Stated
\* for the operations that finish: a tick that a throwing stop-predicate aborted
\* is left aside.)
C13_ArmedIffNonEmpty ==
  ~lastTick.threw =>
    /\ timerPending <=> (intervalPool # <<>>)
    /\ gInterval <=> (intervalPool # <<>>)

----------------------------------------------------------------------------
\* C14: a failure of a task's work or of its stop-predicate on a tick is contained:
\* the scheduler keeps ticking (a non-empty pool always has its timer armed, so
\* the tasks are evaluated on later ticks), the tick evaluates the whole pool, and
\* a task whose invocations have all settled has its isExecuting flag cleared.
C14_FailureContained ==
  /\ (intervalPool # <<>>) => timerPending
  /\ ~lastTick.threw
  /\ \A k \in DOMAIN intervalPool :
       inflight[intervalPool[k].id] = 0 => ~intervalPool[k].isExecuting

----------------------------------------------------------------------------
\* A step that is a call setSettings(S, true).
SetSettingsNoRunStep == nSet' = nSet + 1 /\ lastNoRun'

Stats(ft) ==
  [f \in Features |-> <<ft[f].lastRunTime, ft[f].runTimes, ft[f].failures>>]

\* C15: setSettings(S, noRun = true) writes the enabled and value of S onto the
\* features, starts no pass (no cleanup, shouldRun or run of any feature is
\* invoked) and leaves the stats of every feature unchanged.
C15_NoRunFrame ==
  [][SetSettingsNoRunStep =>
       /\ passes' = passes
       /\ active' = active
       /\ raised' = raised
       /\ Stats(feat') = Stats(feat)
       /\ \A f \in DOMAIN settings' :
            /\ feat'[f].enabled = settings'[f].enabled
            /\ (HasValue[f] /\ settings'[f].value # Undef)
                 => feat'[f].value = settings'[f].value
       /\ \A f \in Features \ DOMAIN settings' : feat'[f] = feat[f]]_vars

\* setSettings(S, true) was the first call, for a snapshot that disables the
\* highlighter and gives it a new value: features that never ran were selected,
\* and no pass exists.
C15_Witness ==
  /\ nSet = 1 /\ lastNoRun
  /\ "SH" \in DOMAIN settings
  /\ ~feat["SH"].enabled
  /\ feat["SH"].value # DefaultValue
  /\ feat["SH"].lastRunTime = 0
  /\ passes = <<>>

----------------------------------------------------------------------------
\* The calls of registerFeature that were the first for their feature name.
FirstCalls ==
  {k \in DOMAIN regLog :
     \A j \in DOMAIN regLog : NameOf(regLog[j]) = NameOf(regLog[k]) => k <= j}

\* C16: after any sequence of registerFeature calls the names of the registry are
\* unique, the registry holds, for every name registered, the instance of the
\* first call for that name, in the order of these calls, and every other call
\* was answered by an error message instead of an exception.
C16_UniqueFirstWins ==
  /\ \A i, j \in DOMAIN registry :
       registry[i].name = registry[j].name => i = j
  /\ {registry[i].inst : i \in DOMAIN registry} = FirstCalls
  /\ \A i \in DOMAIN registry :
       /\ registry[i].ctor = regLog[registry[i].inst]
       /\ registry[i].name = NameOf(regLog[registry[i].inst])
       /\ \A j \in DOMAIN registry : i < j => registry[i].inst < registry[j].inst
  /\ regErrors = Len(regLog) - Cardinality(FirstCalls)

\* Both names are registered and another constructor with the name of the
\* highlighter, then the constructor of the highlighter a second time, were
\* registered behind them.
C16_Witness ==
  /\ Len(regLog) > 3
  /\ Len(registry) = 2
  /\ regErrors >= 2
  /\ registry[1].ctor = "SelectionHighlighter"
  /\ \E k \in DOMAIN regLog : regLog[k] = "Other"
  /\ regLog[Len(regLog)] = "SelectionHighlighter"

----------------------------------------------------------------------------
\* A pass invokes run() of feature f in this step: its awaited shouldRun() has
\* resolved to true.
InvokesRun(f) ==
  \E p \in DOMAIN passes :
    /\ passes[p].pc = "shouldRun"
    /\ CurFeature(p) = f
    /\ passes'[p].pc = "run"

Stamps(f) ==
  \/ feat'[f].runTimes # feat[f].runTimes
  \/ feat'[f].lastRunTime # feat[f].lastRunTime

\* The awaited cleanup() of feature f has settled without error in this step.
CleanupSettledOk(f) ==
  \E p \in DOMAIN passes :
    /\ passes[p].pc = "cleanup"
    /\ CurFeature(p) = f
    /\ passes'[p] # passes[p]
    /\ raised' = raised

\* C17: in a pass the stats of a feature are stamped (lastRunTime set, runTimes
\* incremented by one) exactly when its run() is invoked, which happens only
\* behind a cleanup that settled without error and a shouldRun() that returned
\* true, and only for an enabled feature; behind the cleanup of a disabled
\* feature shouldRun() is not invoked and the stats stay as they are.
C17_RunIffEnabled ==
  [][\A f \in Features :
       /\ (Stamps(f) \/ InvokesRun(f)) =>
             /\ InvokesRun(f)
             /\ feat[f].enabled
             /\ feat'[f].runTimes = feat[f].runTimes + 1
             /\ feat'[f].lastRunTime = now
       /\ (CleanupSettledOk(f) /\ ~feat[f].enabled) =>
             /\ \A p \in DOMAIN passes : passes'[p].pc = "shouldRun" =>
                                          passes[p].pc = "shouldRun"
             /\ Stats(feat') = Stats(feat)]_vars

----------------------------------------------------------------------------
\* The list of a pass is in non-decreasing order of priority.
InPriorityOrder(list) ==
  \A i, j \in DOMAIN list : i < j => priority[list[i]] <= priority[list[j]]

\* C18: every pass, started by Alfred.run() with the default list or by
\* setSettings with the affected features, processes its features in
\* non-decreasing order of priority, one at a time: it moves to the next feature
\* of its list, and calls that feature's cleanup, only in the step in which the
\* awaited call of the feature before it has settled, failed or timed out.
C18_PriorityOrderSequential ==
  [][\A p \in DOMAIN passes' :
       /\ InPriorityOrder(passes'[p].list)
       /\ IF p \in DOMAIN passes
          THEN /\ passes'[p].list = passes[p].list
               /\ passes'[p].idx # passes[p].idx =>
                    /\ passes'[p].idx = passes[p].idx + 1
                    /\ passes[p].pc \in {"cleanup", "shouldRun", "run"}
                    /\ passes'[p].pc \in {"cleanup", "done"}
                    /\ \A q \in DOMAIN passes : q # p => passes'[q] = passes[q]
          ELSE passes'[p].idx = 1]_vars

\* The feature registered second has the lower priority; a pass over both
\* features has the first one behind it, with an error recorded, and is at the
\* cleanup of the second.
C18_Witness ==
  /\ priority["SH"] > priority["FT"]
  /\ \E p \in DOMAIN passes :
       /\ passes[p].list = <<"FT", "SH">>
       /\ passes[p].idx = 2
       /\ passes[p].pc = "cleanup"
       /\ feat["FT"].failures # <<>>

----------------------------------------------------------------------------
\* C19: once the highlighter's cleanup() has run, and until run() is called
\* again, the annotated-node set is empty and the document holds no wrapper, also
\* when a debounced highlight() was pending at the time of the cleanup.
C19_NoAnnotationAfterCleanup ==
  ~listening => (annotatedNodes = {} /\ NoSpans(doc))

----------------------------------------------------------------------------
\* The highlight() call of this step makes a pass for the selected string: the
\* string has more than 2 characters, is not the current search string, and the
\* anchor is not inside a noHighlightWithin element.
PassFor(s) ==
  /\ HighlightStep
  /\ ~hung'
  /\ s = SelectedText(doc, selection)
  /\ Len(s) > 2
  /\ s # currentHighlightText
  /\ ~AnchorInsideRegion

\* The Text nodes of element c are eligible for the pass of this step: the
\* element is not excluded by excludeParents and, under excludeSelf, is not the
\* element that holds the selection.
Eligible(c) ==
  /\ ~(config.excludeParents /\ doc[c].kind = "excl")
  /\ ~(config.excludeSelf /\ selection.c = c)

\* C20: after a highlight pass for the search string s, no Text node of an
\* eligible element contains s any more, every wrapper in an eligible element
\* holds exactly s, and every wrapper is recorded in the annotated-node set.
C20_AllOccurrencesWrapped ==
  [][\A c \in DOMAIN doc :
       (PassFor(SelectedText(doc, selection)) /\ Eligible(c)) =>
          \A j \in DOMAIN doc'[c].kids :
            LET kid == doc'[c].kids[j]
                s   == SelectedText(doc, selection)
            IN /\ kid.t = "text" => ~Includes(kid.s, s)
               /\ kid.t = "span" => (kid.s = s /\ kid.id \in annotatedNodes')]_vars

----------------------------------------------------------------------------
\* The wrappers of the document that the annotated-node set holds.
AnnotatedSpans ==
  {kid \in UNION {Range(doc[c].kids) : c \in DOMAIN doc} :
     kid.t = "span" /\ kid.id \in annotatedNodes}

\* C21: in every reachable state every node of the annotated-node set wraps the
\* current search string (its trimmed text equals currentHighlightText), and no
\* wrapper outside the set, left by a pass for an older string, is in the document.
C21_WrapsCurrentString ==
  ~hung =>
    /\ \A kid \in AnnotatedSpans : Trim(kid.s) = currentHighlightText
    /\ \A c \in DOMAIN doc : \A j \in DOMAIN doc[c].kids :
         doc[c].kids[j].t = "span" => doc[c].kids[j].id \in annotatedNodes

----------------------------------------------------------------------------
\* C22: the work of a task that remove() has been called for (through its
\* handle's stop(), or because its stop-predicate was true on a tick) is not
\* invoked on that tick nor on any later one.
C22_RemovedNeverInvoked ==
  [][\A i \in removedIds' : inflight'[i] <= inflight[i]]_vars

\* A tick removed one task because its stop-predicate was true, without invoking
\* it, and invoked the other task; a task removed before is still out of the pool.
C22_Witness ==
  /\ lastTick.removed # {}
  /\ lastTick.invoked # {}
  /\ lastTick.removed \subseteq removedIds
  /\ \A k \in DOMAIN intervalPool : intervalPool[k].id \notin removedIds

----------------------------------------------------------------------------
\* A step in which the timer callback runs to its end (it re-arms the timer).
TickDone == timerPending /\ now >= timerDue /\ timerDue' # timerDue

\* The condition of the statement: the task is not executing and has never run,
\* or at least its interval has elapsed since its last completed run.
ClaimedDue(inst, t) ==
  /\ ~inst.isExecuting
  /\ (inst.lastRunTime = 0 \/ t - inst.lastRunTime >= inst.interval)

\* C23: on a tick, a task of the pool whose stop-predicate is false (it stays in
\* the pool) is invoked if and only if it is not executing and either has never
\* run or the time since its last completed run is at least its interval, the
\* interval itself included; otherwise it is skipped, its state unchanged.
C23_InvokedIffDue ==
  [][TickDone =>
       \A k \in DOMAIN intervalPool :
         LET inst == intervalPool[k]
         IN (\E j \in DOMAIN intervalPool' : intervalPool'[j].id = inst.id) =>
              IF ClaimedDue(inst, now)
              THEN inflight'[inst.id] = inflight[inst.id] + 1
              ELSE /\ inflight'[inst.id] = inflight[inst.id]
                   /\ \E j \in DOMAIN intervalPool' : intervalPool'[j] = inst]_vars

----------------------------------------------------------------------------
InPool(i) == \E k \in DOMAIN intervalPool : intervalPool[k].id = i

\* Task i is in the pool, not executing, and the modelled clock has room for a
\* tick later than one interval from now.
AwaitsInvocation(i) ==
  \E k \in DOMAIN intervalPool :
    /\ intervalPool[k].id = i
    /\ ~intervalPool[k].isExecuting
    /\ now + intervalPool[k].interval + TickPeriod <= MaxTime

\* C24: provided timer callbacks fire and invocations settle, a task that is in
\* the pool and not executing (just added, or its last invocation has settled)
\* is eventually invoked unless it is removed; the tick chain does not die while
\* the pool is non-empty.
C24_EventuallyInvoked ==
  \A i \in TaskIds :
    AwaitsInvocation(i) ~> (inflight[i] > 0 \/ ~InPool(i))

----------------------------------------------------------------------------
\* A step that is a call of setSettings.
SetSettingsStep == nSet' = nSet + 1

\* C25: setSettings writes no field of a feature other than enabled and value: a
\* feature absent from the snapshot keeps both, an entry without a value leaves
\* the value as it is, a feature without a value property of its own does not
\* get one, and priority and stats are not written by the call.
C25_OnlyEnabledAndValue ==
  [][SetSettingsStep =>
       /\ priority' = priority
       /\ Stats(feat') = Stats(feat)
       /\ \A f \in Features :
            /\ f \notin DOMAIN settings' => feat'[f] = feat[f]
            /\ (f \in DOMAIN settings' /\ settings'[f].value = Undef)
                 => feat'[f].value = feat[f].value
            /\ ~HasValue[f] => feat'[f].value = Undef]_vars

\* setSettings was called with an entry that carries a value for the feature
\* without a value property and an entry without a value for the highlighter;
\* the former has been enabled by the call.
C25_Witness ==
  /\ nSet = 1
  /\ DOMAIN settings = Features
  /\ settings["FT"].value # Undef /\ settings["FT"].enabled
  /\ settings["SH"].value = Undef
  /\ feat["FT"].enabled /\ feat["FT"].value = Undef
  /\ feat["SH"].value = DefaultValue

----------------------------------------------------------------------------
RECURSIVE MergeAll(_, _)
\* The settings after the requests have been merged, one after the other.
MergeAll(read, requests) ==
  IF requests = <<>> THEN read
  ELSE MergeAll(MergeSettings(read, Head(requests)), Tail(requests))

\* C26: once the storage callbacks of the update requests received have all run,
\* in whatever interleaving with the arrival of the requests, the stored settings
\* are the settings before the first request with every request merged in, in
\* the order of arrival (no request is lost, names no request mentions are
\* unchanged), and the last notification sent to the tabs equals them.
C26_NoLostUpdate ==
  storeQueue = <<>> =>
    /\ stored = MergeAll(storedInit, received)
    /\ received # <<>> => notified = stored

----------------------------------------------------------------------------
\* The teardown actions of the runs 1 .. n, in the order of their registration.
RegisteredUpTo(n) == [i \in 1 .. n |-> i]

\* The step is a cleanup() call of feature f.
CleanupStep(f) == Len(executed'[f]) = Len(executed[f]) + 1

\* C27: a built-in feature's teardown queue is never emptied: its length is
\* stats.runTimes before and after every step, and no step removes or reorders
\* an action; every cleanup() executes, in the order of registration, every
\* action registered since the feature was constructed, those earlier cleanups
\* executed included; with an empty queue cleanup() executes nothing and changes
\* nothing of the feature.
C27_TeardownsKept ==
  [][\A f \in Features :
       /\ Len(teardowns[f]) = feat[f].runTimes
       /\ teardowns'[f] = RegisteredUpTo(feat'[f].runTimes)
       /\ SubSeq(teardowns'[f], 1, Len(teardowns[f])) = teardowns[f]
       /\ CleanupStep(f) =>
            /\ executed'[f][Len(executed'[f])] = RegisteredUpTo(feat[f].runTimes)
            /\ teardowns'[f] = teardowns[f]
            /\ feat[f].runTimes = 0 =>
                 /\ executed'[f][Len(executed'[f])] = <<>>
                 /\ feat'[f] = feat[f]
                 /\ active'[f] = active[f]]_vars

\* C27 witness: the highlighter has run twice with a cleanup after each run, the
\* second cleanup executing the first run's action again, and the feature
\* toggles were cleaned up without having run.
C27_Witness ==
  /\ feat["SH"].runTimes = 2
  /\ Len(teardowns["SH"]) = 2
  /\ executed["SH"] = << <<1>>, <<1, 2>> >>
  /\ feat["FT"].runTimes = 0
  /\ executed["FT"] = << <<>> >>
====
